---- MODULE Spec2Model ----
(***************************************************************************)
(* Model of src/app.py: the AR/VR Surgery Research Extractor.              *)
(*                                                                         *)
(* Strings are sequences of symbols.  A symbol is one character, except    *)
(* that each of the three header phrases of parse_response is one symbol   *)
(* (the phrases have no leading or trailing whitespace and contain no      *)
(* newline, so split, strip and the substring tests treat a phrase as one  *)
(* non-blank unit).                                                        *)
(***************************************************************************)
EXTENDS Integers, Sequences, FiniteSets, TLC

VARIABLES
    \* ---- parse_response (src/app.py:114-132) ----
    response_text,    \* the argument
    ppc,              \* position: "loop" | "done"
    lines,            \* response_text.split('\n')
    idx,              \* index of the next line of lines
    info,             \* the dict {"solutions", "to_solve", "pps"}
    current_key,      \* NoKey | "solutions" | "to_solve" | "pps"
    trace             \* history: the (info, current_key) before each line and at the end

VARIABLES
    \* ---- extract_info_with_gemini (src/app.py:76-112) ----
    text,             \* the argument
    gpc,              \* position: "start" | "done"
    sent,             \* the prompts passed to model.generate_content, in order
    gresult           \* the value returned

VARIABLES
    \* ---- main and the state it works on (src/app.py:168-260) ----
    pc,                  \* "idle" | "read" | "gemini" | "parse" | "sheets" | "update" | "render"
    uploaded_file,       \* [name, bytes] of the file in the uploader
    document_base_link,  \* sidebar text input
    pdf_name, pdf_text, ai_response, info_data, sheet, success,  \* locals of main
    cache,               \* st.cache_data store of read_pdf_text: bytes -> None | Some(returned value)
    tmpfiles,            \* temporary files present on the local filesystem
    tmp_seq,             \* number of temporary files created so far (names are fresh)
    rows,                \* the rows of the first worksheet of the spreadsheet
    clock,               \* datetime.now(), in seconds
    runs,                \* number of runs started
    calls,               \* history: the stage calls of the current run, [fn, ok]
    reads,               \* history: calls of read_pdf_text per bytes
    body_execs,          \* history: executions of the body of read_pdf_text per bytes
    rows0                \* history: rows when the current run started

parseVars == <<response_text, lines, ppc, idx, info, current_key, trace>>

promptVars == <<text, gpc, sent, gresult>>

locals == <<pdf_name, pdf_text, ai_response, info_data, sheet, success>>

pipeVars == <<pc, uploaded_file, document_base_link, locals, cache, tmpfiles, tmp_seq,
              rows, clock, runs, calls, reads, body_execs, rows0>>

vars == <<parseVars, promptVars, pipeVars>>

\* Python values that may be None: None is <<>> and a value v is <<v>>
None == <<>>
Some(v) == <<v>>
Val(o) == o[1]

\* current_key = None in parse_response
NoKey == "None"

(***************************************************************************)
(* Bounds                                                                  *)
(***************************************************************************)
MaxLen == 4       \* longest response text enumerated symbol by symbol
MaxLines == 6     \* most lines of a response text built from TemplateLines
MaxShort == 4     \* document texts of length 0..MaxShort
MaxDelta == 4     \* document texts of length TEXT_LIMIT - MaxDelta .. TEXT_LIMIT + MaxDelta
MaxRuns == 3      \* pipeline runs per behaviour

(***************************************************************************)
(* Python string operations                                                *)
(***************************************************************************)
H_SOL == "Existing AR/VR Solutions"
H_TS == "Problems to be Solved"
H_PPS == "Proposed Problem Statement"

NL == "\n"
SP == " "

\* str.strip() with no argument removes these from both ends
Whitespace == {" ", "\n", "\t", "\r"}

SetMin(S) == CHOOSE x \in S : \A y \in S : x <= y
SetMax(S) == CHOOSE x \in S : \A y \in S : x >= y

\* line.strip()
strip(s) ==
    LET keep == {i \in 1..Len(s) : s[i] \notin Whitespace}
    IN  IF keep = {} THEN <<>> ELSE SubSeq(s, SetMin(keep), SetMax(keep))

\* response_text.split('\n'): always at least one line
RECURSIVE split(_)
split(s) ==
    LET nl == {i \in 1..Len(s) : s[i] = NL}
    IN  IF nl = {} THEN <<s>>
        ELSE <<SubSeq(s, 1, SetMin(nl) - 1)>> \o split(SubSeq(s, SetMin(nl) + 1, Len(s)))

\* phrase in line
Contains(line, phrase) == \E i \in 1..Len(line) : line[i] = phrase

\* s.startswith("-")
startswith_dash(s) == Len(s) > 0 /\ s[1] = "-"

\* "\n".join(parts)
RECURSIVE join(_)
join(parts) ==
    IF parts = <<>> THEN <<>>
    ELSE IF Len(parts) = 1 THEN parts[1]
    ELSE parts[1] \o <<NL>> \o join(Tail(parts))

(***************************************************************************)
(* parse_response                                                          *)
(***************************************************************************)
Fields == {"solutions", "to_solve", "pps"}

EmptyInfo == [solutions |-> <<>>, to_solve |-> <<>>, pps |-> <<>>]

\* the if/elif chain on the header phrases: the key a header line selects
HeaderKey(line) ==
    IF Contains(line, H_SOL) THEN "solutions"
    ELSE IF Contains(line, H_TS) THEN "to_solve"
    ELSE IF Contains(line, H_PPS) THEN "pps"
    ELSE NoKey

\* Emit without the strip of a pps line
Emit_PpsUnstripped(key, line) ==
    IF key = "pps" THEN line \o <<SP>>
    ELSE IF startswith_dash(strip(line)) THEN strip(line) \o <<NL>>
    ELSE <<>>

\* Emit testing for a "-" anywhere in the line
Emit_DashAnywhere(key, line) ==
    IF key = "pps" THEN strip(line) \o <<SP>>
    ELSE IF Contains(line, "-") THEN strip(line) \o <<NL>>
    ELSE <<>>

\* Emit storing the bullet line itself
Emit_Verbatim(key, line) ==
    IF key = "pps" THEN strip(line) \o <<SP>>
    ELSE IF startswith_dash(strip(line)) THEN line \o <<NL>>
    ELSE <<>>

\* what a non-header line adds to info[key] while key is the current section
Emit(key, line) ==
    IF key = "pps" THEN strip(line) \o <<SP>>
    ELSE IF startswith_dash(strip(line)) THEN strip(line) \o <<NL>>
    ELSE <<>>

\* ParseStep with if in place of the last elif: a header line is also emitted
ParseStep_HeaderEmitted(st, line) ==
    LET key == IF HeaderKey(line) # NoKey THEN HeaderKey(line) ELSE st.current_key
    IN  IF key # NoKey
        THEN [st EXCEPT !.current_key = key, !.info[key] = @ \o Emit(key, line)]
        ELSE st

\* one iteration of the for loop on the pair (info, current_key)
ParseStep(st, line) ==
    IF HeaderKey(line) # NoKey
    THEN [st EXCEPT !.current_key = HeaderKey(line)]
    ELSE IF st.current_key # NoKey
         THEN [st EXCEPT !.info[st.current_key] = @ \o Emit(st.current_key, line)]
         ELSE st

RECURSIVE ParseFold(_, _)
ParseFold(st, ls) ==
    IF ls = <<>> THEN st ELSE ParseFold(ParseStep(st, Head(ls)), Tail(ls))

\* the function as a whole
parse_response(rt) ==
    ParseFold([info |-> EmptyInfo, current_key |-> NoKey], split(rt)).info

(***************************************************************************)
(* State of the parts a specification does not exercise                    *)
(***************************************************************************)
\* the PDF byte buffers a user can upload
PdfBytes == {"pdfA", "pdfB", "pdfBlank", "pdfCorrupt"}

PromptIdle ==
    /\ text = <<>>
    /\ gpc = "done"
    /\ sent = <<>>
    /\ gresult = None

PipeIdle ==
    /\ pc = "idle"
    /\ uploaded_file = None
    /\ document_base_link = <<>>
    /\ pdf_name = None /\ pdf_text = None /\ ai_response = None
    /\ info_data = None /\ sheet = None /\ success = None
    /\ cache = [b \in PdfBytes |-> None]
    /\ tmpfiles = {}
    /\ tmp_seq = 0
    /\ rows = <<>>
    /\ clock = 0
    /\ runs = 0
    /\ calls = <<>>
    /\ reads = [b \in PdfBytes |-> 0]
    /\ body_execs = [b \in PdfBytes |-> 0]
    /\ rows0 = <<>>

(***************************************************************************)
(* Specification of parse_response, one loop iteration per step            *)
(***************************************************************************)
Alphabet == {H_SOL, H_TS, H_PPS, "-", SP, "x", NL}

TemplateLines == {<<H_SOL>>, <<H_TS>>, <<H_PPS>>, <<"-", "x">>, <<"x">>}

SeqsUpTo(S, n) == UNION {[1..k -> S] : k \in 0..n}

ResponseTexts ==
    SeqsUpTo(Alphabet, MaxLen)
    \cup {join(ls) : ls \in SeqsUpTo(TemplateLines, MaxLines) \ {<<>>}}

ParseIdle ==
    /\ response_text = <<>>
    /\ lines = <<(<<>>)>>
    /\ ppc = "done"
    /\ idx = 2
    /\ info = EmptyInfo
    /\ current_key = NoKey
    /\ trace = <<[info |-> EmptyInfo, current_key |-> NoKey],
                 [info |-> EmptyInfo, current_key |-> NoKey]>>

InitParse ==
    /\ PromptIdle
    /\ PipeIdle
    /\ response_text \in ResponseTexts
    /\ lines = split(response_text)
    /\ ppc = "loop"
    /\ idx = 1
    /\ info = EmptyInfo
    /\ current_key = NoKey
    /\ trace = <<[info |-> EmptyInfo, current_key |-> NoKey]>>

ParseLine ==
    /\ ppc = "loop"
    /\ idx <= Len(lines)
    /\ LET st == ParseStep([info |-> info, current_key |-> current_key], lines[idx])
       IN  /\ info' = st.info
           /\ current_key' = st.current_key
           /\ trace' = Append(trace, st)
    /\ idx' = idx + 1
    /\ UNCHANGED <<response_text, lines, ppc, promptVars, pipeVars>>

ParseReturn ==
    /\ ppc = "loop"
    /\ idx > Len(lines)
    /\ ppc' = "done"
    /\ UNCHANGED <<response_text, lines, idx, info, current_key, trace, promptVars, pipeVars>>

NextParse == ParseLine \/ ParseReturn

SpecParse == InitParse /\ [][NextParse]_vars

(***************************************************************************)
(* extract_info_with_gemini                                                *)
(***************************************************************************)
TEXT_LIMIT == 30000

\* text[-n:], the last n characters
Slice_Suffix(s, n) == SubSeq(s, IF Len(s) < n THEN 1 ELSE Len(s) - n + 1, Len(s))

\* text[:n]
Slice(s, n) == SubSeq(s, 1, IF Len(s) < n THEN Len(s) ELSE n)

\* the f-string: the fixed instructions up to "TEXT:\n", the document text, "\n"
PromptHead == <<"You are an AI assistant ... Format exactly like this: ... TEXT:\n">>
PromptTail == <<NL>>

BuildPrompt(t) == PromptHead \o Slice(t, TEXT_LIMIT) \o PromptTail

\* the document text inside a prompt
Embedded(p) == SubSeq(p, Len(PromptHead) + 1, Len(p) - Len(PromptTail))

\* what the model service can answer; None stands for a raised exception
ModelAnswers ==
    { <<>>,
      <<"x">>,
      <<H_SOL, ":", NL, "-", "x", SP, NL, NL, H_TS, ":", NL, SP, "-", "x", NL, "x", NL,
        H_PPS, ":", NL, "x", SP, NL>> }

ModelOutcomes == {Some(a) : a \in ModelAnswers} \cup {None}

\* a text of length n whose characters cycle through a, b, c from offset o
CycleText(n, o) ==
    [i \in 1..n |-> IF (i + o) % 3 = 0 THEN "a" ELSE IF (i + o) % 3 = 1 THEN "b" ELSE "c"]

DocLengths == (0..MaxShort) \cup ((TEXT_LIMIT - MaxDelta)..(TEXT_LIMIT + MaxDelta))

DocTexts == {CycleText(n, o) : n \in DocLengths, o \in 0..2}

InitPrompt ==
    /\ ParseIdle
    /\ PipeIdle
    /\ text \in DocTexts
    /\ gpc = "start"
    /\ sent = <<>>
    /\ gresult = None

\* the whole function: genai.configure and the GenerativeModel constructor
\* only record their arguments, then one generate_content call, which returns
\* or raises
ExtractInfo ==
    /\ gpc = "start"
    /\ sent' = Append(sent, BuildPrompt(text))
    /\ gresult' \in ModelOutcomes
    /\ gpc' = "done"
    /\ UNCHANGED <<text, parseVars, pipeVars>>

NextPrompt == ExtractInfo

SpecPrompt == InitPrompt /\ [][NextPrompt]_vars

(***************************************************************************)
(* The pipeline: main, read_pdf_text, setup_google_sheets, update_sheet    *)
(*                                                                         *)
(* Each stage function catches its own exceptions and returns None or      *)
(* False, so the outer try/except of main has nothing to catch here.       *)
(* The services are the environment: the model answers or raises, opening  *)
(* the sheet succeeds or raises, and append_row either adds the row at the *)
(* end of the sheet or raises without writing.  uploaded_file.read()       *)
(* yields the whole byte buffer of the file in the uploader.  The cache of *)
(* st.cache_data lives as long as the process and is never cleared.        *)
(***************************************************************************)
\* what fitz.open makes of the bytes: the text of each page, or None when it
\* raises
PdfPages(b) ==
    CASE b = "pdfA" -> Some(<<(<<"x">>), (<<"x", "x">>)>>)
      [] b = "pdfB" -> Some(<<(<<"x", SP>>)>>)
      [] b = "pdfBlank" -> Some(<<(<<>>)>>)
      [] OTHER -> None

\* the files a user can put in the uploader (type=['pdf'])
UploadedFiles ==
    { [name |-> <<"paper", ".", "pdf">>, bytes |-> "pdfA"],
      [name |-> <<"paper", ".", "v2", ".", "pdf">>, bytes |-> "pdfA"],
      [name |-> <<"notes", ".", "pdf">>, bytes |-> "pdfB"],
      [name |-> <<"blank", ".", "pdf">>, bytes |-> "pdfBlank"],
      [name |-> <<"bad", ".", "pdf">>, bytes |-> "pdfCorrupt"] }

Links == {<<>>, <<"https://docs.google.com/spreadsheets/d/...">>}

\* os.path.splitext(name)[0]: the name up to its last dot (none of the names
\* starts with a dot)
splitext0(name) ==
    LET dots == {i \in 1..Len(name) : name[i] = "."}
    IN  IF dots = {} THEN name ELSE SubSeq(name, 1, SetMax(dots) - 1)

\* not v, for v a string or None
Falsy(o) == o = None \/ Val(o) = <<>>

\* the body of read_pdf_text: the value returned
read_pdf_text_body(b) ==
    IF PdfPages(b) = None THEN None ELSE Some(join(Val(PdfPages(b))))

\* the temporary files after the body ran on b with the fresh file f:
\* os.unlink is reached only when no statement before it raised
TmpAfterBody(files, f, b) ==
    IF PdfPages(b) = None THEN files \cup {f} ELSE files

\* a lookup that never hits
CacheLookup_Miss(c, b) == None

\* st.cache_data: the stored entry for these bytes, if any
CacheLookup(c, b) == c[b]

\* the early returns of main after each stage
AfterRead(v) == IF Falsy(v) THEN "idle" ELSE "gemini"
AfterGemini(v) == IF Falsy(v) THEN "idle" ELSE "parse"
AfterSetup_NoAbort(v) == "update"
AfterSetup(v) == IF v = None THEN "idle" ELSE "update"

\* datetime.now().strftime("%Y-%m-%d %H:%M:%S") on the day the clock starts
strftime(t) == <<"%Y-%m-%d", SP, (t \div 3600) % 24, ":", (t \div 60) % 60, ":", t % 60>>

\* BuildRow with the solutions and pps cells exchanged
BuildRow_Swapped(inf, name, link, timestamp) ==
    <<name, link, strip(inf.solutions), strip(inf.pps), strip(inf.to_solve), timestamp>>

\* the list update_sheet passes to append_row
BuildRow(inf, name, link, timestamp) ==
    <<name, link, strip(inf.pps), strip(inf.solutions), strip(inf.to_solve), timestamp>>

\* an append that replaces the row of a document already in the sheet
append_row_Upsert(rs, row) ==
    IF \E i \in 1..Len(rs) : rs[i][1] = row[1]
    THEN [rs EXCEPT ![CHOOSE i \in 1..Len(rs) : rs[i][1] = row[1]] = row]
    ELSE Append(rs, row)

\* sheet.append_row(row)
append_row(rs, row) == Append(rs, row)

Log(fn, ok) == Append(calls, [fn |-> fn, ok |-> ok])

\* main returns: its locals are gone
Return ==
    /\ pdf_name' = None /\ pdf_text' = None /\ ai_response' = None
    /\ info_data' = None /\ sheet' = None /\ success' = None

Init ==
    /\ ParseIdle
    /\ PromptIdle
    /\ PipeIdle

\* the user has a file in the uploader and presses "Process Document"
Click ==
    /\ pc = "idle"
    /\ runs < MaxRuns
    /\ \E f \in UploadedFiles, link \in Links :
          /\ uploaded_file' = f
          /\ document_base_link' = link
          /\ pdf_name' = Some(splitext0(f.name))
    /\ runs' = runs + 1
    /\ calls' = <<>>
    /\ rows0' = rows
    /\ pc' = "read"
    /\ UNCHANGED <<pdf_text, ai_response, info_data, sheet, success, cache, tmpfiles,
                   tmp_seq, rows, clock, reads, body_execs, parseVars, promptVars>>

\* Step 1: read_pdf_text(uploaded_file.read()) under @st.cache_data
ReadPdf ==
    /\ pc = "read"
    /\ LET b == uploaded_file.bytes
           hit == CacheLookup(cache, b)
           v == IF hit # None THEN Val(hit) ELSE read_pdf_text_body(b)
       IN  /\ IF hit # None
              THEN UNCHANGED <<cache, tmpfiles, tmp_seq, body_execs>>
              ELSE /\ cache' = [cache EXCEPT ![b] = Some(v)]
                   /\ tmp_seq' = tmp_seq + 1
                   /\ tmpfiles' = TmpAfterBody(tmpfiles, tmp_seq + 1, b)
                   /\ body_execs' = [body_execs EXCEPT ![b] = @ + 1]
           /\ reads' = [reads EXCEPT ![b] = @ + 1]
           /\ calls' = Log("read_pdf_text", v # None)
           /\ pc' = AfterRead(v)
           /\ IF pc' = "idle"
              THEN Return
              ELSE /\ pdf_text' = v
                   /\ UNCHANGED <<pdf_name, ai_response, info_data, sheet, success>>
    /\ UNCHANGED <<uploaded_file, document_base_link, rows, clock, runs, rows0,
                   parseVars, promptVars>>

\* Step 2: extract_info_with_gemini(pdf_text, gemini_api_key)
Gemini ==
    /\ pc = "gemini"
    /\ \E v \in ModelOutcomes :
          /\ calls' = Log("extract_info_with_gemini", v # None)
          /\ pc' = AfterGemini(v)
          /\ IF pc' = "idle"
             THEN Return
             ELSE /\ ai_response' = v
                  /\ UNCHANGED <<pdf_name, pdf_text, info_data, sheet, success>>
    /\ UNCHANGED <<uploaded_file, document_base_link, cache, tmpfiles, tmp_seq, rows,
                   clock, runs, reads, body_execs, rows0, parseVars, promptVars>>

\* Step 3: parse_response(ai_response)
Parse ==
    /\ pc = "parse"
    /\ info_data' = Some(parse_response(Val(ai_response)))
    /\ pc' = "sheets"
    /\ UNCHANGED <<uploaded_file, document_base_link, pdf_name, pdf_text, ai_response,
                   sheet, success, cache, tmpfiles, tmp_seq, rows, clock, runs, calls,
                   reads, body_execs, rows0, parseVars, promptVars>>

\* Step 4: setup_google_sheets(service_account_data, spreadsheet_name)
SetupSheets ==
    /\ pc = "sheets"
    /\ \E v \in {Some("sheet1"), None} :
          /\ calls' = Log("setup_google_sheets", v # None)
          /\ pc' = AfterSetup(v)
          /\ IF pc' = "idle"
             THEN Return
             ELSE /\ sheet' = v
                  /\ UNCHANGED <<pdf_name, pdf_text, ai_response, info_data, success>>
    /\ UNCHANGED <<uploaded_file, document_base_link, cache, tmpfiles, tmp_seq, rows,
                   clock, runs, reads, body_execs, rows0, parseVars, promptVars>>

\* Step 5: update_sheet(sheet, info_data, pdf_name, document_base_link)
UpdateSheet ==
    /\ pc = "update"
    /\ \E now \in {clock, clock + 1}, ok \in BOOLEAN :
          /\ clock' = now
          /\ rows' = IF ok
                     THEN append_row(rows, BuildRow(Val(info_data), Val(pdf_name),
                                                    document_base_link, strftime(now)))
                     ELSE rows
          /\ success' = Some(ok)
          /\ calls' = Log("append_row", ok)
    /\ pc' = "render"
    /\ UNCHANGED <<uploaded_file, document_base_link, pdf_name, pdf_text, ai_response,
                   info_data, sheet, cache, tmpfiles, tmp_seq, runs, reads, body_execs, rows0,
                   parseVars, promptVars>>

\* the result panels or the failure status, then main returns
Render ==
    /\ pc = "render"
    /\ Return
    /\ pc' = "idle"
    /\ UNCHANGED <<uploaded_file, document_base_link, cache, tmpfiles, tmp_seq, rows,
                   clock, runs, calls, reads, body_execs, rows0, parseVars, promptVars>>

Next == Click \/ ReadPdf \/ Gemini \/ Parse \/ SetupSheets \/ UpdateSheet \/ Render

Spec == Init /\ [][Next]_vars

(***************************************************************************)
(* Properties of parse_response                                            *)
(***************************************************************************)
Phrase == [solutions |-> H_SOL, to_solve |-> H_TS, pps |-> H_PPS]

IsHeaderLine(line) == \E f \in Fields : Contains(line, Phrase[f])

IsBullet(line) == startswith_dash(strip(line))

\* the lines the loop has consumed so far
Processed == 1..(Len(trace) - 1)

HeadersBefore(i) == {j \in 1..(i - 1) : IsHeaderLine(lines[j])}

\* the fields whose value the iteration on line i changed
Changed(i) == {f \in Fields : trace[i + 1].info[f] # trace[i].info[f]}

\* what the iteration on line i added at the end of field f
Delta(i, f) ==
    SubSeq(trace[i + 1].info[f], Len(trace[i].info[f]) + 1, Len(trace[i + 1].info[f]))

Grows(i, f) ==
    SubSeq(trace[i + 1].info[f], 1, Len(trace[i].info[f])) = trace[i].info[f]

\* concatenation of piece(i) for i = lo..hi
RECURSIVE CatRange(_, _, _)
CatRange(piece(_), lo, hi) ==
    IF lo > hi THEN <<>> ELSE piece(lo) \o CatRange(piece, lo + 1, hi)

HeaderLines == {j \in 1..Len(lines) : IsHeaderLine(lines[j])}

PhrasesIn(line) == {f \in Fields : Contains(line, Phrase[f])}

\* exactly three header lines a < b < c, one per phrase, in the template's
\* order, each followed by at least one line, and every other line after the
\* first header a bullet line
ThreeInOrder(a, b, c) ==
    /\ a < b /\ b < c
    /\ HeaderLines = {a, b, c}
    /\ PhrasesIn(lines[a]) = {"solutions"}
    /\ PhrasesIn(lines[b]) = {"to_solve"}
    /\ PhrasesIn(lines[c]) = {"pps"}
    /\ b > a + 1 /\ c > b + 1 /\ Len(lines) > c
    /\ \A j \in (a + 1)..Len(lines) : j \notin {b, c} => IsBullet(lines[j])

StrippedNL(i) == strip(lines[i]) \o <<NL>>
StrippedSP(i) == strip(lines[i]) \o <<SP>>

\* C4: every line goes to at most one field, the field of the most recently
\* seen header line: a header line and a line before the first header change
\* no field, a bullet line after a header changes that header's field and no
\* other; with the three headers in order, each followed by bullets, every
\* field holds its own bullets, and with no header all three fields are empty.
C4_Attribution ==
    /\ \A i \in Processed :
        /\ Cardinality(Changed(i)) <= 1
        /\ \A f \in Fields : Grows(i, f)
        /\ IsHeaderLine(lines[i]) => Changed(i) = {}
        /\ HeadersBefore(i) = {} => Changed(i) = {}
        /\ \A f \in Changed(i) : Contains(lines[SetMax(HeadersBefore(i))], Phrase[f])
        /\ (HeadersBefore(i) # {} /\ ~IsHeaderLine(lines[i]) /\ IsBullet(lines[i]))
              => Changed(i) # {}
    /\ ppc = "done" =>
        /\ (\A j \in 1..Len(lines) : ~IsHeaderLine(lines[j])) => info = EmptyInfo
        /\ \A a, b, c \in HeaderLines :
              ThreeInOrder(a, b, c) =>
                 /\ info.solutions = CatRange(StrippedNL, a + 1, b - 1)
                 /\ info.to_solve = CatRange(StrippedNL, b + 1, c - 1)
                 /\ info.pps = CatRange(StrippedSP, c + 1, Len(lines))

C4_Witness ==
    /\ ppc = "done"
    /\ \E a, b, c \in HeaderLines : ThreeInOrder(a, b, c)
    /\ \A f \in Fields : info[f] # <<>>

\* what line i is expected to add to pps: its stripped form and one space when
\* it is a non-header line read while the current section is pps
PpsPiece(i) ==
    IF ~IsHeaderLine(lines[i]) /\ trace[i].current_key = "pps"
    THEN strip(lines[i]) \o <<SP>>
    ELSE <<>>

\* C5: pps is the concatenation, in order, of strip(line) and one space for
\* every non-header line of a Proposed Problem Statement section, bulleted or
\* not, and it never contains a newline.
C5_PpsJoined ==
    /\ info.pps = CatRange(PpsPiece, 1, Len(trace) - 1)
    /\ \A k \in 1..Len(info.pps) : info.pps[k] # NL

C5_Witness ==
    /\ ppc = "done"
    /\ lines = <<(<<H_PPS>>), (<<"x">>), (<<"-", "x">>)>>
    /\ info.pps = <<"x", SP, "-", "x", SP>>

InListSection(i) ==
    /\ ~IsHeaderLine(lines[i])
    /\ trace[i].current_key \in {"solutions", "to_solve"}

\* C6: a non-header line of a solutions or to_solve section is added to that
\* section's field exactly when its stripped form starts with "-"; otherwise
\* no field changes and the current section stays.
C6_BulletFilter ==
    \A i \in Processed :
        InListSection(i) =>
            /\ IsBullet(lines[i]) <=> Changed(i) = {trace[i].current_key}
            /\ ~IsBullet(lines[i]) =>
                  /\ Changed(i) = {}
                  /\ trace[i + 1].current_key = trace[i].current_key

C6_Witness ==
    /\ ppc = "done"
    /\ \E i, j \in Processed :
          /\ InListSection(i) /\ IsBullet(lines[i]) /\ Changed(i) # {}
          /\ InListSection(j) /\ ~IsBullet(lines[j]) /\ lines[j] # <<>>

Kept(i) == InListSection(i) /\ Changed(i) # {}

\* C7 as stated: a kept bullet line is stored unchanged, with its own leading
\* and trailing whitespace, followed by a newline.
C7_Verbatim ==
    \A i \in Processed :
        Kept(i) => Delta(i, trace[i].current_key) = lines[i] \o <<NL>>

\* C7 amended: a kept bullet line is stored in its stripped form followed by
\* a newline, which is the input line itself only when the line has no
\* leading or trailing whitespace.
C7_Stripped ==
    \A i \in Processed :
        Kept(i) =>
            /\ Delta(i, trace[i].current_key) = strip(lines[i]) \o <<NL>>
            /\ (Delta(i, trace[i].current_key) = lines[i] \o <<NL>>)
                  <=> (strip(lines[i]) = lines[i])

C7_Witness ==
    /\ ppc = "done"
    /\ \E i \in Processed : Kept(i) /\ strip(lines[i]) # lines[i]

(***************************************************************************)
(* Properties of extract_info_with_gemini                                  *)
(***************************************************************************)
\* C8: the document text inside the prompt is the prefix of the text of
\* length min(len(text), 30000), the whole text when it is shorter than the
\* budget, and the model is called exactly once, with that prompt.
C8_PromptPrefix ==
    gpc = "done" =>
        /\ Len(sent) = 1
        /\ sent[1] = BuildPrompt(text)
        /\ LET doc == Embedded(sent[1])
           IN  /\ Len(doc) = (IF Len(text) < TEXT_LIMIT THEN Len(text) ELSE TEXT_LIMIT)
               /\ Len(doc) <= 30000
               /\ \A i \in 1..Len(doc) : doc[i] = text[i]
               /\ Len(text) < TEXT_LIMIT => doc = text

C8_Witness ==
    /\ gpc = "done"
    /\ Len(text) > TEXT_LIMIT
    /\ Len(Embedded(sent[1])) = TEXT_LIMIT
    /\ text[Len(text)] # text[TEXT_LIMIT]

(***************************************************************************)
(* Properties of the pipeline                                              *)
(***************************************************************************)
StageOrder ==
    <<"read_pdf_text", "extract_info_with_gemini", "setup_google_sheets", "append_row">>

Failed == {i \in 1..Len(calls) : ~calls[i].ok}

\* C1: within a run the stages are called in order, each at most once, and
\* none after a stage that failed; once a stage has failed the run has no
\* stage left to call.
C1_ShortCircuit ==
    /\ Len(calls) <= Len(StageOrder)
    /\ \A i \in 1..Len(calls) : calls[i].fn = StageOrder[i]
    /\ \A i \in Failed : i = Len(calls)
    /\ Failed # {} => pc \in {"idle", "render"}

C1_Witness ==
    /\ pc = "idle"
    /\ Len(calls) = 2
    /\ Failed = {2}

IsPrefix(a, b) == Len(a) <= Len(b) /\ SubSeq(b, 1, Len(a)) = a

AllSucceeded == Len(calls) = Len(StageOrder) /\ Failed = {}

\* C2: the rows present when a run started stay as they are, in place; the
\* run adds exactly one row after them when all four stages succeeded and
\* none otherwise, whether or not the sheet already has a row for the document.
C2_AppendOnly ==
    /\ IsPrefix(rows0, rows)
    /\ Len(rows) = Len(rows0) + (IF AllSucceeded THEN 1 ELSE 0)

C2_Witness ==
    /\ pc = "idle"
    /\ Len(rows) = 2
    /\ \A k \in 1..5 : rows[1][k] = rows[2][k]
    /\ AllSucceeded

LastRow == rows[Len(rows)]

Appended == pc = "render" /\ success = Some(TRUE)

\* C3 as stated: the appended row is [document_name, document_link, pps,
\* solutions, to_solve, timestamp] with the three cells equal to the parsed
\* fields character for character.
C3_RowExact ==
    Appended =>
        LET p == parse_response(Val(ai_response))
        IN  /\ Len(LastRow) = 6
            /\ LastRow[1] = splitext0(uploaded_file.name)
            /\ LastRow[2] = document_base_link
            /\ LastRow[3] = p.pps
            /\ LastRow[4] = p.solutions
            /\ LastRow[5] = p.to_solve
            /\ LastRow[6] = strftime(clock)

\* C3 amended: the three cells are the parsed fields with leading and trailing
\* whitespace removed, so a cell equals its field exactly only when the field
\* is empty.
C3_RowStripped ==
    Appended =>
        LET p == parse_response(Val(ai_response))
        IN  /\ Len(LastRow) = 6
            /\ LastRow[1] = splitext0(uploaded_file.name)
            /\ LastRow[2] = document_base_link
            /\ LastRow[3] = strip(p.pps)
            /\ LastRow[4] = strip(p.solutions)
            /\ LastRow[5] = strip(p.to_solve)
            /\ LastRow[6] = strftime(clock)
            /\ (LastRow[3] = p.pps) <=> (p.pps = <<>>)
            /\ (LastRow[4] = p.solutions) <=> (p.solutions = <<>>)
            /\ (LastRow[5] = p.to_solve) <=> (p.to_solve = <<>>)

C3_Witness ==
    /\ Appended
    /\ \A f \in Fields : parse_response(Val(ai_response))[f] # <<>>
    /\ LastRow[3] # LastRow[4]

LocalsGone ==
    /\ pdf_name = None /\ pdf_text = None /\ ai_response = None
    /\ info_data = None /\ sheet = None /\ success = None

\* C9 as stated: between runs nothing derived from a document is held in
\* process memory, and every call of read_pdf_text executes the extraction.
C9_Stateless ==
    pc = "idle" =>
        /\ LocalsGone
        /\ \A b \in PdfBytes : cache[b] = None /\ body_execs[b] = reads[b]

\* C9 amended: between runs the locals of main are gone, but the value
\* returned by read_pdf_text stays cached under the PDF bytes it was called
\* with (a failure included), and the extraction is executed only for the
\* first call on given bytes; later calls are served from the cache.
C9_ExtractionCached ==
    /\ pc = "idle" => LocalsGone
    /\ \A b \in PdfBytes :
          /\ cache[b] = None <=> reads[b] = 0
          /\ cache[b] # None => Val(cache[b]) = read_pdf_text_body(b)
          /\ body_execs[b] = (IF reads[b] = 0 THEN 0 ELSE 1)

C9_Witness ==
    /\ pc = "idle"
    /\ \E b \in PdfBytes : reads[b] >= 2 /\ body_execs[b] = 1 /\ cache[b] # None

\* C10: a call of read_pdf_text leaves the set of temporary files as it
\* found it, whether it returns the text or None.
C10_TempFileDeleted == [][pc = "read" => tmpfiles' = tmpfiles]_vars

====
